---- MODULE Spec2Model ----
(***************************************************************************)
(* The election tracker (createElection) and the festival manager          *)
(* (createFestivalManager) as state machines.  A plain JavaScript object   *)
(* is a record [keys, val]: keys is the sequence of own property keys in   *)
(* insertion order, val maps each own key to its value.  Reads go through  *)
(* the prototype chain, and for-in walks integer-like keys first.          *)
(***************************************************************************)
EXTENDS Integers, Sequences, FiniteSets, TLC

VARIABLES heap, festivalsRef, candidateRef, given, held

VARIABLES factory, inst, solo, ilast

VARIABLES currentTally, tallyCall

VARIABLES regionTree, frames, returned

VARIABLES rules, verdict

VARIABLES candidates, candidateMap, votes, registered, voted, last,
          succBy, succFor,
          festivals, flast, nAdded, nRemoved

VARIABLES addedAt

(* the election instance: its closure state, the record of the last call, *)
(* and the history of success-handler invocations per voter and per id    *)
evars == <<candidates, candidateMap, votes, registered, voted, last, succBy, succFor>>

(* the festival manager: its list, the record of the last call, and the   *)
(* history of additions and removals that succeeded                       *)
fvars == <<festivals, flast, nAdded, nRemoved>>

(* for every stored name the number of the successful addition that stored *)
(* it, kept for a manager whose additions are numbered                     *)
ovars == <<addedAt>>

(* the objects behind the values: every array and record at its address,  *)
(* the array bound to festivals, the record each key of candidateMap      *)
(* refers to, the array the caller gave to createElection, and the value  *)
(* the caller holds from the last accessor call                           *)
hvars == <<heap, festivalsRef, candidateRef, given, held>>

(* two instances made by two calls of one factory: the factory, the        *)
(* closure state of each instance, the state of each instance when it is  *)
(* the only one called, and the last call with both results               *)
ivars == <<factory, inst, solo, ilast>>

(* the tally a caller of tallyPure holds and the last call of tallyPure *)
tvars == <<currentTally, tallyCall>>

(* a call of countVotesInRegions: its argument, the activations of the     *)
(* function that have not returned yet, and the value the call returned    *)
rvars == <<regionTree, frames, returned>>

(* a validator made by createVoteValidator: the rules it was made from and *)
(* the last call of it                                                     *)
vvars == <<rules, verdict>>

(* the callers of the standalone functions *)
pvars == <<tvars, rvars, vvars>>

besidesElection == <<fvars, hvars, ivars, pvars, ovars>>

besidesFestival == <<evars, hvars, ivars, pvars, ovars>>

besidesRefs == <<ivars, pvars, ovars>>

besidesInstances == <<evars, fvars, hvars, pvars, ovars>>

besidesTally == <<evars, fvars, hvars, ivars, rvars, vvars, ovars>>

besidesRegions == <<evars, fvars, hvars, ivars, tvars, vvars, ovars>>

besidesValidator == <<evars, fvars, hvars, ivars, tvars, rvars, ovars>>

besidesOrder == <<evars, hvars, ivars, pvars>>

vars == <<evars, fvars, hvars, ivars, pvars, ovars>>

-----------------------------------------------------------------------------
(* Bounds of the model and the inputs drawn from them *)

MaxCands == 2

VotingAge == 18

VoterIds == {"V1", "V2"}

(* ids a caller may put on a candidate or pass to castVote: an ordinary    *)
(* string, an integer-like string, a name Object.prototype defines, and    *)
(* the empty string                                                       *)
CandIds == {"C1", "1", "toString", ""}

CandNames == <<"Ram", "Sita", "Gita", "Mohan">>

MkCandidate(i, id) == [id |-> id, name |-> CandNames[i], party |-> "Janata"]

CandidateLists ==
    UNION {{[i \in 1..n |-> MkCandidate(i, f[i])] : f \in [1..n -> CandIds]} : n \in 0..MaxCands}

NoCandidate == [id |-> "", name |-> "", party |-> ""]

(* voter arguments of registerVoter: null, a primitive string, and objects *)
NullVoter == [typeof |-> "object", isNull |-> TRUE, id |-> "", ageKind |-> "undefined", age |-> 0]

StringVoter == [typeof |-> "string", isNull |-> FALSE, id |-> "", ageKind |-> "undefined", age |-> 0]

ObjectVoters ==
    {[typeof |-> "object", isNull |-> FALSE, id |-> i, ageKind |-> "number", age |-> a] :
        i \in VoterIds, a \in {VotingAge - 1, VotingAge}}
    \cup
    {[typeof |-> "object", isNull |-> FALSE, id |-> "", ageKind |-> "number", age |-> VotingAge]}
    \cup
    {[typeof |-> "object", isNull |-> FALSE, id |-> "V1", ageKind |-> k, age |-> 0] :
        k \in {"NaN", "string"}}

VoterInputs == {NullVoter, StringVoter} \cup ObjectVoters

(* typeof onSuccess, typeof onError *)
Handlers == {"function", "undefined"}

-----------------------------------------------------------------------------
(* Plain objects *)

EmptyObject == [keys |-> <<>>, val |-> <<>>]

HasOwn(obj, k) == \E i \in 1..Len(obj.keys) : obj.keys[i] = k

Put(obj, k, v) ==
    [keys |-> IF HasOwn(obj, k) THEN obj.keys ELSE Append(obj.keys, k),
     val  |-> [x \in (DOMAIN obj.val) \cup {k} |-> IF x = k THEN v ELSE obj.val[x]]]

(* the properties every plain object inherits from Object.prototype *)
ObjectPrototypeKeys == {"toString", "valueOf", "constructor", "hasOwnProperty"}

(* canonical numeric strings are array-index keys; -1 for every other key *)
IndexValue(k) ==
    CASE k = "0" -> 0 [] k = "1" -> 1 [] k = "2" -> 2 [] k = "3" -> 3 [] OTHER -> -1

IsIndex(k) == IndexValue(k) >= 0

RECURSIVE AscendingIndexKeys(_)
AscendingIndexKeys(S) ==
    IF S = {} THEN <<>>
    ELSE LET m == CHOOSE k \in S : \A j \in S : IndexValue(k) <= IndexValue(j)
         IN  <<m>> \o AscendingIndexKeys(S \ {m})

IsNotIndex(k) == ~IsIndex(k)

(* for (let id in obj): integer-like keys ascending, then the other keys in *)
(* insertion order (Object.prototype has no enumerable property)           *)
ForInKeys(obj) ==
    AscendingIndexKeys({obj.keys[i] : i \in {j \in 1..Len(obj.keys) : IsIndex(obj.keys[j])}})
    \o SelectSeq(obj.keys, IsNotIndex)

-----------------------------------------------------------------------------
(* Values stored in votes: numbers, and what + makes of a non-number *)

Num(n) == [kind |-> "number", n |-> n]

UndefinedValue == [kind |-> "undefined", n |-> 0]

FunctionValue == [kind |-> "function", n |-> 0]

(* votes[k] *)
GetVote(vs, k) ==
    IF HasOwn(vs, k) THEN vs.val[k]
    ELSE IF k \in ObjectPrototypeKeys THEN FunctionValue
    ELSE UndefinedValue

Truthy(v) ==
    CASE v.kind = "number" -> v.n # 0
      [] v.kind = "undefined" -> FALSE
      [] OTHER -> TRUE

(* (v || 0) + 1: a function or string operand turns + into concatenation; *)
(* n then counts the "1" characters appended                              *)
OrZeroPlusOne(v) ==
    IF ~Truthy(v) THEN Num(1)
    ELSE IF v.kind = "number" THEN Num(v.n + 1)
    ELSE [kind |-> "string", n |-> v.n + 1]

(* v || 0 *)
OrZero(v) == IF Truthy(v) THEN v ELSE Num(0)

(* candidateMap[k] *)
GetCandidate(cm, k) ==
    IF HasOwn(cm, k) THEN [kind |-> "candidate", c |-> cm.val[k]]
    ELSE IF k \in ObjectPrototypeKeys THEN [kind |-> "function", c |-> NoCandidate]
    ELSE [kind |-> "undefined", c |-> NoCandidate]

-----------------------------------------------------------------------------
(* createElection: the loop of lines 73-79 *)

RECURSIVE BuildMaps(_, _, _, _)
BuildMaps(cands, i, cm, vs) ==
    IF i > Len(cands) THEN [candidateMap |-> cm, votes |-> vs]
    ELSE LET c == cands[i]
         IN  IF c.id # ""
             THEN BuildMaps(cands, i + 1, Put(cm, c.id, c), Put(vs, c.id, Num(0)))
             ELSE BuildMaps(cands, i + 1, cm, vs)

createElection(cands) == BuildMaps(cands, 1, EmptyObject, EmptyObject)

-----------------------------------------------------------------------------
(* Return values and the record of the last call *)

Undefined == [kind |-> "undefined", by |-> "", text |-> ""]

Bool(b) == [kind |-> "boolean", by |-> "", text |-> IF b THEN "true" ELSE "false"]

NoWinner == [isNull |-> TRUE, c |-> NoCandidate]

NoCall ==
    [op |-> "none", voter |-> NullVoter, voterId |-> "", candidateId |-> "",
     onSuccess |-> "undefined", onError |-> "undefined",
     calls |-> <<>>, ret |-> Undefined, results |-> <<>>, winner |-> NoWinner]

-----------------------------------------------------------------------------
(* registerVoter, lines 81-95 *)

(* the condition of the if at lines 82-89; NaN has typeof "number" and    *)
(* NaN < 18 is false                                                      *)
registerVoterRejects(voter, reg) ==
    \/ voter.isNull
    \/ voter.typeof # "object"
    \/ voter.id = ""
    \/ voter.ageKind \notin {"number", "NaN"}
    \/ (voter.ageKind = "number" /\ voter.age < VotingAge)
    \/ voter.id \in reg

registerVoter(voter) ==
    /\ registered' = IF registerVoterRejects(voter, registered)
                      THEN registered
                      ELSE registered \cup {voter.id}
    /\ last' = [NoCall EXCEPT !.op = "registerVoter", !.voter = voter,
                              !.ret = Bool(~registerVoterRejects(voter, registered))]
    /\ UNCHANGED <<candidates, candidateMap, votes, voted, succBy, succFor>>

-----------------------------------------------------------------------------
(* castVote, lines 97-117 *)

(* one invocation of successCb / errorCb: supplied says whether the       *)
(* caller's function ran or the no-op that stands in for a missing one    *)
SuccessCall(voterId, candidateId, onSuccess) ==
    [handler |-> "success", reason |-> "", voterId |-> voterId,
     candidateId |-> candidateId, supplied |-> (onSuccess = "function")]

ErrorCall(reason, onError) ==
    [handler |-> "error", reason |-> reason, voterId |-> "",
     candidateId |-> "", supplied |-> (onError = "function")]

(* what the handler of a call returns: the callers' handlers are the ones *)
(* of the example at line 63, the stand-in no-op returns undefined        *)
HandlerReturn(call) ==
    IF ~call.supplied THEN Undefined
    ELSE IF call.handler = "success" THEN [kind |-> "string", by |-> "onSuccess", text |-> "voted!"]
    ELSE [kind |-> "string", by |-> "onError", text |-> call.reason]

Rejected(vs, vd, reason, onError) ==
    [votes |-> vs, voted |-> vd, calls |-> <<ErrorCall(reason, onError)>>,
     ret |-> HandlerReturn(ErrorCall(reason, onError))]

(* castVote without the check of lines 109-111 *)
castVoteOutcome_NoVotedCheck(cm, vs, reg, vd, voterId, candidateId, onSuccess, onError) ==
    IF voterId \notin reg
    THEN Rejected(vs, vd, "voter_not_registered", onError)
    ELSE IF GetCandidate(cm, candidateId).kind = "undefined"
    THEN Rejected(vs, vd, "candidate_not_found", onError)
    ELSE [votes |-> Put(vs, candidateId, OrZeroPlusOne(GetVote(vs, candidateId))),
          voted |-> vd \cup {voterId},
          calls |-> <<SuccessCall(voterId, candidateId, onSuccess)>>,
          ret   |-> HandlerReturn(SuccessCall(voterId, candidateId, onSuccess))]

(* castVote with line 110 lacking its return: the error handler runs and  *)
(* the call goes on to record the vote                                    *)
castVoteOutcome_FallThrough(cm, vs, reg, vd, voterId, candidateId, onSuccess, onError) ==
    IF voterId \notin reg
    THEN Rejected(vs, vd, "voter_not_registered", onError)
    ELSE IF GetCandidate(cm, candidateId).kind = "undefined"
    THEN Rejected(vs, vd, "candidate_not_found", onError)
    ELSE [votes |-> Put(vs, candidateId, OrZeroPlusOne(GetVote(vs, candidateId))),
          voted |-> vd \cup {voterId},
          calls |-> (IF voterId \in vd THEN <<ErrorCall("already_voted", onError)>> ELSE <<>>)
                        \o <<SuccessCall(voterId, candidateId, onSuccess)>>,
          ret   |-> HandlerReturn(SuccessCall(voterId, candidateId, onSuccess))]

(* castVote with the checks of lines 105 and 109 in the other order *)
castVoteOutcome_VotedFirst(cm, vs, reg, vd, voterId, candidateId, onSuccess, onError) ==
    IF voterId \notin reg
    THEN Rejected(vs, vd, "voter_not_registered", onError)
    ELSE IF voterId \in vd
    THEN Rejected(vs, vd, "already_voted", onError)
    ELSE IF GetCandidate(cm, candidateId).kind = "undefined"
    THEN Rejected(vs, vd, "candidate_not_found", onError)
    ELSE [votes |-> Put(vs, candidateId, OrZeroPlusOne(GetVote(vs, candidateId))),
          voted |-> vd \cup {voterId},
          calls |-> <<SuccessCall(voterId, candidateId, onSuccess)>>,
          ret   |-> HandlerReturn(SuccessCall(voterId, candidateId, onSuccess))]

castVoteOutcome(cm, vs, reg, vd, voterId, candidateId, onSuccess, onError) ==
    IF voterId \notin reg
    THEN Rejected(vs, vd, "voter_not_registered", onError)
    ELSE IF GetCandidate(cm, candidateId).kind = "undefined"
    THEN Rejected(vs, vd, "candidate_not_found", onError)
    ELSE IF voterId \in vd
    THEN Rejected(vs, vd, "already_voted", onError)
    ELSE [votes |-> Put(vs, candidateId, OrZeroPlusOne(GetVote(vs, candidateId))),
          voted |-> vd \cup {voterId},
          calls |-> <<SuccessCall(voterId, candidateId, onSuccess)>>,
          ret   |-> HandlerReturn(SuccessCall(voterId, candidateId, onSuccess))]

SuccessCalls(calls) == Len(SelectSeq(calls, LAMBDA c : c.handler = "success"))

castVote(voterId, candidateId, onSuccess, onError) ==
    LET out == castVoteOutcome(candidateMap, votes, registered, voted,
                               voterId, candidateId, onSuccess, onError)
    IN  /\ votes' = out.votes
        /\ voted' = out.voted
        /\ last' = [NoCall EXCEPT !.op = "castVote", !.voterId = voterId,
                                  !.candidateId = candidateId,
                                  !.onSuccess = onSuccess, !.onError = onError,
                                  !.calls = out.calls, !.ret = out.ret]
        /\ succBy' = [succBy EXCEPT ![voterId] = @ + SuccessCalls(out.calls)]
        /\ succFor' = [succFor EXCEPT ![candidateId] = @ + SuccessCalls(out.calls)]
        /\ UNCHANGED <<candidates, candidateMap, registered>>

-----------------------------------------------------------------------------
(* getResults, lines 119-139 *)

(* the loop of lines 122-130 over the keys of candidateMap *)
ResultRows(cm, vs) ==
    [i \in 1..Len(ForInKeys(cm)) |->
        LET id == ForInKeys(cm)[i]
            c  == cm.val[id]
        IN  [id |-> c.id, name |-> c.name, party |-> c.party,
             votes |-> OrZero(GetVote(vs, id))]]

(* the comparators: the default (a, b) => b.votes - a.votes of line 135,  *)
(* and a caller's (a, b) => a.votes - b.votes; a - on a non-number is NaN, *)
(* which sort treats as 0                                                 *)
(* the default comparator with its operands exchanged *)
Compare_Ascending(sortFn, a, b) ==
    IF a.votes.kind # "number" \/ b.votes.kind # "number" THEN 0
    ELSE a.votes.n - b.votes.n

Compare(sortFn, a, b) ==
    IF a.votes.kind # "number" \/ b.votes.kind # "number" THEN 0
    ELSE IF sortFn = "ascending" THEN a.votes.n - b.votes.n
    ELSE b.votes.n - a.votes.n

(* Array.prototype.sort is stable: x goes before the first row that the   *)
(* comparator puts strictly after it                                      *)
InsertStable(sortFn, acc, x) ==
    LET after == {p \in 1..Len(acc) : Compare(sortFn, acc[p], x) > 0}
        pos   == IF after = {} THEN Len(acc) + 1
                 ELSE CHOOSE p \in after : \A q \in after : p <= q
    IN  SubSeq(acc, 1, pos - 1) \o <<x>> \o SubSeq(acc, pos, Len(acc))

RECURSIVE SortFrom(_, _, _, _)
SortFrom(sortFn, rows, i, acc) ==
    IF i > Len(rows) THEN acc
    ELSE SortFrom(sortFn, rows, i + 1, InsertStable(sortFn, acc, rows[i]))

Sort(sortFn, rows) == SortFrom(sortFn, rows, 1, <<>>)

getResultsValue(cm, vs, sortFn) == Sort(sortFn, ResultRows(cm, vs))

SortFns == {"undefined", "ascending"}

getResults(sortFn) ==
    /\ last' = [NoCall EXCEPT !.op = "getResults", !.onSuccess = sortFn,
                              !.results = getResultsValue(candidateMap, votes, sortFn)]
    /\ UNCHANGED <<candidates, candidateMap, votes, registered, voted, succBy, succFor>>

-----------------------------------------------------------------------------
(* getWinner, lines 141-155 *)

(* v > maxVotes: a string that is not a numeral converts to NaN *)
GreaterThan(v, maxVotes) == v.kind = "number" /\ v.n > maxVotes

RECURSIVE WinnerLoop(_, _, _, _, _, _)
WinnerLoop(cm, vs, keys, i, winner, maxVotes) ==
    IF i > Len(keys) THEN [winner |-> winner, maxVotes |-> maxVotes]
    ELSE LET v == vs.val[keys[i]]
         IN  IF GreaterThan(v, maxVotes)
             THEN WinnerLoop(cm, vs, keys, i + 1, GetCandidate(cm, keys[i]), v.n)
             ELSE WinnerLoop(cm, vs, keys, i + 1, winner, maxVotes)

getWinnerValue(cm, vs) ==
    LET r == WinnerLoop(cm, vs, ForInKeys(vs), 1, [kind |-> "null", c |-> NoCandidate], 0)
    IN  IF r.maxVotes = 0 THEN NoWinner
        ELSE IF r.winner.kind \in {"null", "undefined"} THEN NoWinner
        ELSE [isNull |-> FALSE, c |-> r.winner.c]

getWinner ==
    /\ last' = [NoCall EXCEPT !.op = "getWinner",
                              !.winner = getWinnerValue(candidateMap, votes)]
    /\ UNCHANGED <<candidates, candidateMap, votes, registered, voted, succBy, succFor>>

-----------------------------------------------------------------------------
(* The festival manager, createFestivalManager *)

MaxAdds == 4

Str(x) == [typeof |-> "string", s |-> x]

NotAString == [typeof |-> "number", s |-> <<>>]

(* date strings, character by character *)
Date1 == <<"2", "0", "2", "5", "-", "1", "0", "-", "2", "0">>

Date2 == <<"2", "0", "2", "5", "-", "0", "1", "-", "2", "6">>

ShortDate == <<"2", "0", "2", "5", "-", "1", "-", "2", "6">>

WellFormedDates == {Str(Date1), Str(Date2)}

NameInputs == {Str("Diwali"), Str("Holi"), Str(""), [typeof |-> "number", s |-> "42"]}

UpcomingNames == {Str("Diwali"), Str("Holi"), Str("Eid"), Str("Pongal")}

(* the names a manager of the model can come to store *)
StoredNames == {x.s : x \in {y \in NameInputs \cup UpcomingNames : y.typeof = "string" /\ y.s # ""}}

DateInputs == WellFormedDates \cup {Str(ShortDate), NotAString}

TypeInputs == {"religious", "national", "cultural", "regional"}

validTypes == {"religious", "national", "cultural"}

Digits == {"0", "1", "2", "3", "4", "5", "6", "7", "8", "9"}

(* typeof d === "string" && /^\d{4}-\d{2}-\d{2}$/.test(d) *)
isValidDateStr(d) ==
    /\ d.typeof = "string"
    /\ Len(d.s) = 10
    /\ \A i \in {1, 2, 3, 4, 6, 7, 9, 10} : d.s[i] \in Digits
    /\ d.s[5] = "-"
    /\ d.s[8] = "-"

(* festivals[i].name === name for some i *)
NameStored(list, name) ==
    name.typeof = "string" /\ \E i \in 1..Len(list) : list[i].name = name.s

NumberRet(n) == [kind |-> "number", n |-> n, list |-> <<>>]

BoolRet(b) == [kind |-> "boolean", n |-> IF b THEN 1 ELSE 0, list |-> <<>>]

ListRet(l) == [kind |-> "list", n |-> 0, list |-> l]

(* the n argument of getUpcoming: a number, or undefined when left out *)
NoN == [kind |-> "undefined", n |-> 0]

FCall(op, name, date, type, ret) ==
    [op |-> op, name |-> name, date |-> date, type |-> type, n |-> NoN, ret |-> ret]

NoFCall == FCall("none", NotAString, NotAString, "", NumberRet(0))

(* addFestival without the duplicate scan of lines 70-72 *)
addFestivalRejects_NoScan(list, name, date, type) ==
    \/ name.typeof # "string"
    \/ name.s = ""
    \/ ~isValidDateStr(date)
    \/ type \notin validTypes

(* the guard of lines 61-68 and the duplicate scan of lines 70-72 *)
addFestivalRejects(list, name, date, type) ==
    \/ name.typeof # "string"
    \/ name.s = ""
    \/ ~isValidDateStr(date)
    \/ type \notin validTypes
    \/ NameStored(list, name)

addFestivalList(list, name, date, type) ==
    IF addFestivalRejects(list, name, date, type) THEN list
    ELSE Append(list, [name |-> name.s, date |-> date.s, type |-> type])

(* addFestival returning the length it read before the push *)
addFestivalValue_BeforePush(list, name, date, type) ==
    IF addFestivalRejects(list, name, date, type) THEN 0 - 1
    ELSE Len(list)

addFestivalValue(list, name, date, type) ==
    IF addFestivalRejects(list, name, date, type) THEN 0 - 1
    ELSE Len(addFestivalList(list, name, date, type))

addFestival(name, date, type) ==
    /\ nAdded < MaxAdds
    /\ festivals' = addFestivalList(festivals, name, date, type)
    /\ flast' = FCall("addFestival", name, date, type,
                      NumberRet(addFestivalValue(festivals, name, date, type)))
    /\ nAdded' = IF addFestivalValue(festivals, name, date, type) = 0 - 1
                  THEN nAdded ELSE nAdded + 1
    /\ UNCHANGED nRemoved

(* removeFestival keeping only slice(0, i) *)
removeFestivalList_Truncate(list, name) ==
    IF ~NameStored(list, name) THEN list
    ELSE LET i == CHOOSE k \in 1..Len(list) :
                      list[k].name = name.s /\ \A j \in 1..(k - 1) : list[j].name # name.s
         IN  SubSeq(list, 1, i - 1)

(* lines 78-89: drop the first record with the name *)
removeFestivalList(list, name) ==
    IF ~NameStored(list, name) THEN list
    ELSE LET i == CHOOSE k \in 1..Len(list) :
                      list[k].name = name.s /\ \A j \in 1..(k - 1) : list[j].name # name.s
         IN  SubSeq(list, 1, i - 1) \o SubSeq(list, i + 1, Len(list))

removeFestival(name) ==
    /\ festivals' = removeFestivalList(festivals, name)
    /\ flast' = FCall("removeFestival", name, NotAString, "", BoolRet(NameStored(festivals, name)))
    /\ nRemoved' = IF NameStored(festivals, name) THEN nRemoved + 1 ELSE nRemoved
    /\ UNCHANGED nAdded

(* lines 91-98: a fresh list of fresh records *)
getAllValue(list) ==
    [i \in 1..Len(list) |-> [name |-> list[i].name, date |-> list[i].date, type |-> list[i].type]]

getAll ==
    /\ flast' = FCall("getAll", NotAString, NotAString, "", ListRet(getAllValue(festivals)))
    /\ UNCHANGED <<festivals, nAdded, nRemoved>>

(* lines 128-130 *)
getCountValue(list) == Len(list)

getCount ==
    /\ flast' = FCall("getCount", NotAString, NotAString, "", NumberRet(getCountValue(festivals)))
    /\ UNCHANGED <<festivals, nAdded, nRemoved>>

(* lines 100-109: fresh copies of the records of a type, in list order *)
getByTypeValue(list, type) ==
    LET hits == SelectSeq(list, LAMBDA f : f.type = type)
    IN  [i \in 1..Len(hits) |-> [name |-> hits[i].name, date |-> hits[i].date, type |-> hits[i].type]]

getByType(type) ==
    /\ flast' = FCall("getByType", NotAString, NotAString, type, ListRet(getByTypeValue(festivals, type)))
    /\ UNCHANGED <<festivals, nAdded, nRemoved>>

(* getUpcoming, lines 111-126 *)

MaxN == 2

DefaultN == 3

Date0 == <<"2", "0", "2", "5", "-", "0", "2", "-", "0", "1">>

Date3 == <<"2", "0", "2", "5", "-", "0", "3", "-", "1", "4">>

NInputs == {NoN} \cup {[kind |-> "number", n |-> k] : k \in 0..MaxN}

(* UTF-16 code units of the characters a date string is made of *)
CharCode(c) ==
    CASE c = "-" -> 45 [] c = "0" -> 48 [] c = "1" -> 49 [] c = "2" -> 50 [] c = "3" -> 51
      [] c = "4" -> 52 [] c = "5" -> 53 [] c = "6" -> 54 [] c = "7" -> 55 [] c = "8" -> 56
      [] c = "9" -> 57

(* a < b on strings: the first differing code unit decides, a proper      *)
(* prefix is smaller                                                      *)
StringLess(a, b) ==
    \/ \E i \in 1..Len(a) :
           /\ i <= Len(b)
           /\ \A j \in 1..(i - 1) : a[j] = b[j]
           /\ CharCode(a[i]) < CharCode(b[i])
    \/ (Len(a) < Len(b) /\ \A j \in 1..Len(a) : a[j] = b[j])

(* a.localeCompare(b) on stored dates: digits and hyphens at the same     *)
(* positions, which every collation orders like their code units          *)
localeCompare(a, b) == IF StringLess(a, b) THEN 0 - 1 ELSE IF StringLess(b, a) THEN 1 ELSE 0

(* the filter of line 117 with > in place of >= *)
UpcomingFilter_Strict(list, currentDate) ==
    SelectSeq(list, LAMBDA f : StringLess(currentDate.s, f.date))

(* lines 116-121: the records with date >= currentDate, copied *)
UpcomingFilter(list, currentDate) ==
    SelectSeq(list, LAMBDA f : ~StringLess(f.date, currentDate.s))

(* filtered.sort((a, b) => a.date.localeCompare(b.date)), stable *)
InsertByDate(acc, x) ==
    LET after == {p \in 1..Len(acc) : localeCompare(acc[p].date, x.date) > 0}
        pos   == IF after = {} THEN Len(acc) + 1
                 ELSE CHOOSE p \in after : \A q \in after : p <= q
    IN  SubSeq(acc, 1, pos - 1) \o <<x>> \o SubSeq(acc, pos, Len(acc))

RECURSIVE SortByDateFrom(_, _, _)
SortByDateFrom(rows, i, acc) ==
    IF i > Len(rows) THEN acc
    ELSE SortByDateFrom(rows, i + 1, InsertByDate(acc, rows[i]))

SortByDate(rows) == SortByDateFrom(rows, 1, <<>>)

(* the default parameter n = 3 *)
EffectiveN(n) == IF n.kind = "undefined" THEN DefaultN ELSE n.n

(* arr.slice(0, k) for k >= 0 *)
SliceFromStart(arr, k) == SubSeq(arr, 1, IF k < Len(arr) THEN k ELSE Len(arr))

getUpcomingValue(list, currentDate, n) ==
    IF ~isValidDateStr(currentDate) THEN <<>>
    ELSE SliceFromStart(SortByDate(UpcomingFilter(list, currentDate)), EffectiveN(n))

(* the stored list after a getUpcoming that sorts festivals itself *)
getUpcomingStored_SortInPlace(list, currentDate, n) ==
    IF ~isValidDateStr(currentDate) THEN list ELSE SortByDate(list)

(* the stored list after getUpcoming: the sort works on the copy *)
getUpcomingStored(list, currentDate, n) == list

getUpcoming(currentDate, n) ==
    /\ festivals' = getUpcomingStored(festivals, currentDate, n)
    /\ flast' = [FCall("getUpcoming", NotAString, currentDate, "",
                       ListRet(getUpcomingValue(festivals, currentDate, n))) EXCEPT !.n = n]
    /\ UNCHANGED <<nAdded, nRemoved>>

-----------------------------------------------------------------------------
(* The manager with its successful additions numbered *)

addFestivalNumbered(name, date, type) ==
    /\ addFestival(name, date, type)
    /\ addedAt' = IF addFestivalValue(festivals, name, date, type) = 0 - 1
                   THEN addedAt ELSE [addedAt EXCEPT ![name.s] = nAdded + 1]
    /\ UNCHANGED besidesOrder

removeFestivalNumbered(name) ==
    /\ removeFestival(name)
    /\ addedAt' = IF NameStored(festivals, name) THEN [addedAt EXCEPT ![name.s] = 0] ELSE addedAt
    /\ UNCHANGED besidesOrder

-----------------------------------------------------------------------------
(* Objects by reference.  An array is a cell holding the addresses of its  *)
(* elements, a record a cell holding its fields; festivals and            *)
(* candidateMap are the contents read through the references.             *)

HeapNames == {Str("Diwali"), Str("Holi")}

Addrs == 1..(3 * MaxCands + 2 * Cardinality(HeapNames) + 4)

NullRef == 0

FreeCell == [kind |-> "free"]

ArrayCell(items) == [kind |-> "array", items |-> items]

RecordCell(r) == [kind |-> "record", rec |-> r]

Items(s) == {s[i] : i \in 1..Len(s)}

EmptyHeap == [a \in Addrs |-> FreeCell]

(* the free addresses in ascending order: the k-th allocation from h gets  *)
(* the k-th of them                                                       *)
FreeList(h) == SelectSeq([a \in Addrs |-> a], LAMBDA a : h[a].kind = "free")

NthFree(h, k) == FreeList(h)[k]

(* [ {...}, {...}, ... ]: a new array of new records with the given fields *)
NewArray(h, recs) ==
    LET free == FreeList(h)
        n    == Len(recs)
    IN  [heap |-> [a \in Addrs |->
                      IF \E i \in 1..n : a = free[i]
                      THEN RecordCell(recs[CHOOSE i \in 1..n : a = free[i]])
                      ELSE IF a = free[n + 1]
                      THEN ArrayCell(SubSeq(free, 1, n))
                      ELSE h[a]],
         ref  |-> free[n + 1]]

(* the records of an array, and of an object whose values are records *)
DerefList(h, ref) ==
    IF ref = NullRef THEN <<>>
    ELSE [i \in 1..Len(h[ref].items) |-> h[h[ref].items[i]].rec]

DerefMap(h, cm) ==
    [keys |-> cm.keys, val |-> [k \in DOMAIN cm.val |-> h[cm.val[k]].rec]]

(* what no root reaches any more is reclaimed *)
Sweep(h, roots) ==
    LET reached == roots \cup UNION {Items(h[r].items) : r \in {x \in roots : h[x].kind = "array"}}
    IN  [a \in Addrs |-> IF a \in reached THEN h[a] ELSE FreeCell]

(* what the closures of the two factories refer to *)
ClosureRoots(fref, cref) ==
    ({fref} \ {NullRef}) \cup {cref.val[k] : k \in DOMAIN cref.val}

(* what the caller refers to: the candidates array and the held value *)
CallerRoots(giv, hd) ==
    ({giv} \ {NullRef}) \cup (IF hd.kind \in {"array", "record"} THEN {hd.ref} ELSE {})

NoHeld == [kind |-> "none", ref |-> NullRef]

HeldArray(ref) == [kind |-> "array", ref |-> ref]

(* lines 73-79 on references: candidateMap[c.id] = { ...c } *)
RECURSIVE BuildRefs(_, _, _, _)
BuildRefs(h, cands, i, cm) ==
    IF i > Len(cands) THEN [heap |-> h, candidateRef |-> cm]
    ELSE IF cands[i].id # ""
         THEN BuildRefs([h EXCEPT ![NthFree(h, 1)] = RecordCell(cands[i])],
                        cands, i + 1, Put(cm, cands[i].id, NthFree(h, 1)))
         ELSE BuildRefs(h, cands, i + 1, cm)

(* the candidates array a caller builds and hands to createElection *)
createElectionRefs(cands) ==
    LET arg   == NewArray(EmptyHeap, cands)
        built == BuildRefs(arg.heap, cands, 1, EmptyObject)
    IN  [heap |-> Sweep(built.heap, ClosureRoots(NullRef, built.candidateRef) \cup {arg.ref}),
         candidateRef |-> built.candidateRef,
         given |-> arg.ref]

(* line 74: festivals.push({ name, date, type }) *)
addFestivalHeap(h, ref, name, date, type) ==
    IF addFestivalRejects(DerefList(h, ref), name, date, type) THEN h
    ELSE [h EXCEPT ![NthFree(h, 1)] = RecordCell([name |-> name.s, date |-> date.s, type |-> type]),
                   ![ref] = ArrayCell(Append(h[ref].items, NthFree(h, 1)))]

(* lines 81-84: festivals = [...festivals.slice(0, i), ...festivals.slice(i + 1)] *)
removeFestivalHeap(h, ref, name) ==
    IF ~NameStored(DerefList(h, ref), name) THEN [heap |-> h, ref |-> ref]
    ELSE LET list == DerefList(h, ref)
             i == CHOOSE k \in 1..Len(list) :
                      list[k].name = name.s /\ \A j \in 1..(k - 1) : list[j].name # name.s
             items == h[ref].items
         IN  [heap |-> [h EXCEPT ![NthFree(h, 1)] =
                           ArrayCell(SubSeq(items, 1, i - 1) \o SubSeq(items, i + 1, Len(items)))],
              ref  |-> NthFree(h, 1)]

(* getAll pushing f itself in place of the literal of line 95 *)
getAllHeap_SameRecords(h, ref) ==
    [heap |-> [h EXCEPT ![NthFree(h, 1)] = ArrayCell(h[ref].items)], ref |-> NthFree(h, 1)]

(* lines 92-97: copy = [] and one literal per stored record *)
getAllHeap(h, ref) == NewArray(h, getAllValue(DerefList(h, ref)))

(* lines 101-108 *)
getByTypeHeap(h, ref, type) == NewArray(h, getByTypeValue(DerefList(h, ref), type))

(* lines 114-125: literals into filtered, sorted, and sliced into a new array *)
getUpcomingHeap(h, ref, currentDate, n) ==
    NewArray(h, getUpcomingValue(DerefList(h, ref), currentDate, n))

(* lines 120-138: results = [] and one literal per key of candidateMap *)
getResultsHeap(h, cm, vs, sortFn) == NewArray(h, getResultsValue(DerefMap(h, cm), vs, sortFn))

(* lines 153-154: null, or the literal { ...winner } *)
getWinnerHeap(h, cm, vs) ==
    LET w == getWinnerValue(DerefMap(h, cm), vs)
    IN  IF w.isNull THEN [heap |-> h, held |-> [kind |-> "null", ref |-> NullRef]]
        ELSE [heap |-> [h EXCEPT ![NthFree(h, 1)] = RecordCell(w.c)],
              held |-> [kind |-> "record", ref |-> NthFree(h, 1)]]

(* the heap once the caller has let go of the value it held *)
Released == Sweep(heap, ClosureRoots(festivalsRef, candidateRef) \cup CallerRoots(given, NoHeld))

addFestivalByRef(name, date, type) ==
    /\ festivalsRef # NullRef
    /\ heap' = addFestivalHeap(heap, festivalsRef, name, date, type)
    /\ festivals' = addFestivalList(festivals, name, date, type)
    /\ flast' = FCall("addFestival", name, date, type,
                      NumberRet(addFestivalValue(festivals, name, date, type)))
    /\ UNCHANGED <<festivalsRef, candidateRef, given, held, evars, nAdded, nRemoved>>
    /\ UNCHANGED besidesRefs

removeFestivalByRef(name) ==
    /\ festivalsRef # NullRef
    /\ festivals' = removeFestivalList(festivals, name)
    /\ flast' = FCall("removeFestival", name, NotAString, "", BoolRet(NameStored(festivals, name)))
    /\ LET r == removeFestivalHeap(heap, festivalsRef, name)
       IN  /\ festivalsRef' = r.ref
           /\ heap' = Sweep(r.heap, ClosureRoots(r.ref, candidateRef) \cup CallerRoots(given, held))
    /\ UNCHANGED <<candidateRef, given, held, evars, nAdded, nRemoved>>
    /\ UNCHANGED besidesRefs

getAllByRef ==
    /\ festivalsRef # NullRef
    /\ getAll
    /\ LET r == getAllHeap(Released, festivalsRef)
       IN  heap' = r.heap /\ held' = HeldArray(r.ref)
    /\ UNCHANGED <<festivalsRef, candidateRef, given, evars>>
    /\ UNCHANGED besidesRefs

getByTypeByRef(type) ==
    /\ festivalsRef # NullRef
    /\ getByType(type)
    /\ LET r == getByTypeHeap(Released, festivalsRef, type)
       IN  heap' = r.heap /\ held' = HeldArray(r.ref)
    /\ UNCHANGED <<festivalsRef, candidateRef, given, evars>>
    /\ UNCHANGED besidesRefs

getUpcomingByRef(currentDate, n) ==
    /\ festivalsRef # NullRef
    /\ getUpcoming(currentDate, n)
    /\ LET r == getUpcomingHeap(Released, festivalsRef, currentDate, n)
       IN  heap' = r.heap /\ held' = HeldArray(r.ref)
    /\ UNCHANGED <<festivalsRef, candidateRef, given, evars>>
    /\ UNCHANGED besidesRefs

registerVoterByRef(voter) ==
    /\ given # NullRef
    /\ registerVoter(voter)
    /\ UNCHANGED <<hvars, fvars>>
    /\ UNCHANGED besidesRefs

castVoteByRef(voterId, candidateId, onSuccess, onError) ==
    /\ given # NullRef
    /\ castVote(voterId, candidateId, onSuccess, onError)
    /\ UNCHANGED <<hvars, fvars>>
    /\ UNCHANGED besidesRefs

getResultsByRef(sortFn) ==
    /\ given # NullRef
    /\ getResults(sortFn)
    /\ LET r == getResultsHeap(Released, candidateRef, votes, sortFn)
       IN  heap' = r.heap /\ held' = HeldArray(r.ref)
    /\ UNCHANGED <<festivalsRef, candidateRef, given, fvars>>
    /\ UNCHANGED besidesRefs

getWinnerByRef ==
    /\ given # NullRef
    /\ getWinner
    /\ LET r == getWinnerHeap(Released, candidateRef, votes)
       IN  heap' = r.heap /\ held' = r.held
    /\ UNCHANGED <<festivalsRef, candidateRef, given, fvars>>
    /\ UNCHANGED besidesRefs

(* the records and the arrays the caller can reach *)
CallerArrays == {r \in CallerRoots(given, held) : heap[r].kind = "array"}

CallerRecords ==
    {r \in CallerRoots(given, held) : heap[r].kind = "record"}
    \cup UNION {Items(heap[r].items) : r \in CallerArrays}

(* the caller's code: record.name = "Changed" on a record it can reach *)
callerSetsName(a) ==
    /\ heap[a].rec.name # "Changed"
    /\ heap' = [heap EXCEPT ![a].rec.name = "Changed"]
    /\ festivals' = DerefList(heap', festivalsRef)
    /\ candidateMap' = DerefMap(heap', candidateRef)
    /\ UNCHANGED <<festivalsRef, candidateRef, given, held>>
    /\ UNCHANGED <<candidates, votes, registered, voted, last, succBy, succFor>>
    /\ UNCHANGED <<flast, nAdded, nRemoved>>
    /\ UNCHANGED besidesRefs

(* the caller's code: list.pop() on an array it can reach *)
callerPops(r) ==
    /\ Len(heap[r].items) > 0
    /\ heap' = Sweep([heap EXCEPT ![r].items = SubSeq(@, 1, Len(@) - 1)],
                     ClosureRoots(festivalsRef, candidateRef) \cup CallerRoots(given, held))
    /\ festivals' = DerefList(heap', festivalsRef)
    /\ candidateMap' = DerefMap(heap', candidateRef)
    /\ UNCHANGED <<festivalsRef, candidateRef, given, held>>
    /\ UNCHANGED <<candidates, votes, registered, voted, last, succBy, succFor>>
    /\ UNCHANGED <<flast, nAdded, nRemoved>>
    /\ UNCHANGED besidesRefs

(* no factory has been called for the caller by reference *)
NoRefs ==
    /\ heap = EmptyHeap
    /\ festivalsRef = NullRef
    /\ candidateRef = EmptyObject
    /\ given = NullRef
    /\ held = NoHeld

-----------------------------------------------------------------------------
(* Two instances of one factory.  Each call of a factory runs its body and *)
(* so declares its own festivals, or its own candidateMap, votes,          *)
(* registered and voted; the methods it returns refer to those.            *)

Instances == {1, 2}

(* the closure variables the methods of the i-th instance refer to, were   *)
(* they declared outside the factory                                       *)
ClosureOf_Shared(i) == CHOOSE j \in Instances : \A k \in Instances : j <= k

(* the closure variables the methods of the i-th instance refer to: those  *)
(* of the i-th call of the factory                                         *)
ClosureOf(i) == i

(* line 52 *)
NewManager == [festivals |-> <<>>]

(* lines 67-79 *)
NewElection(cands) ==
    [candidateMap |-> createElection(cands).candidateMap,
     votes |-> createElection(cands).votes,
     registered |-> {}, voted |-> {}]

(* the methods as functions of the closure state: the state they leave and *)
(* the value they return                                                   *)
AddFestivalOf(st, name, date, type) ==
    [state |-> [festivals |-> addFestivalList(st.festivals, name, date, type)],
     ret   |-> NumberRet(addFestivalValue(st.festivals, name, date, type))]

RemoveFestivalOf(st, name) ==
    [state |-> [festivals |-> removeFestivalList(st.festivals, name)],
     ret   |-> BoolRet(NameStored(st.festivals, name))]

GetAllOf(st) == [state |-> st, ret |-> ListRet(getAllValue(st.festivals))]

GetByTypeOf(st, type) == [state |-> st, ret |-> ListRet(getByTypeValue(st.festivals, type))]

GetUpcomingOf(st, currentDate, n) ==
    [state |-> [festivals |-> getUpcomingStored(st.festivals, currentDate, n)],
     ret   |-> ListRet(getUpcomingValue(st.festivals, currentDate, n))]

GetCountOf(st) == [state |-> st, ret |-> NumberRet(getCountValue(st.festivals))]

RegisterVoterOf(st, voter) ==
    [state |-> [st EXCEPT !.registered = IF registerVoterRejects(voter, st.registered)
                                         THEN @ ELSE @ \cup {voter.id}],
     ret   |-> Bool(~registerVoterRejects(voter, st.registered))]

CastVoteOf(st, voterId, candidateId, onSuccess, onError) ==
    LET out == castVoteOutcome(st.candidateMap, st.votes, st.registered, st.voted,
                               voterId, candidateId, onSuccess, onError)
    IN  [state |-> [st EXCEPT !.votes = out.votes, !.voted = out.voted],
         ret   |-> [calls |-> out.calls, ret |-> out.ret]]

GetResultsOf(st, sortFn) ==
    [state |-> st, ret |-> getResultsValue(st.candidateMap, st.votes, sortFn)]

GetWinnerOf(st) == [state |-> st, ret |-> getWinnerValue(st.candidateMap, st.votes)]

NoICall == [inst |-> 0, op |-> "none", ret |-> Undefined, alone |-> Undefined]

(* a call of a method of instance i: shared is what it does to the closure *)
(* state its methods refer to, alone what it does to instance i called on  *)
(* its own                                                                 *)
Run(i, op, shared, alone) ==
    /\ inst' = [inst EXCEPT ![ClosureOf(i)] = shared.state]
    /\ solo' = [solo EXCEPT ![i] = alone.state]
    /\ ilast' = [inst |-> i, op |-> op, ret |-> shared.ret, alone |-> alone.ret]
    /\ UNCHANGED <<factory, besidesInstances>>

addFestivalOn(i, name, date, type) ==
    /\ factory = "createFestivalManager"
    /\ Run(i, "addFestival", AddFestivalOf(inst[ClosureOf(i)], name, date, type),
                             AddFestivalOf(solo[i], name, date, type))

removeFestivalOn(i, name) ==
    /\ factory = "createFestivalManager"
    /\ Run(i, "removeFestival", RemoveFestivalOf(inst[ClosureOf(i)], name),
                                RemoveFestivalOf(solo[i], name))

getAllOn(i) ==
    /\ factory = "createFestivalManager"
    /\ Run(i, "getAll", GetAllOf(inst[ClosureOf(i)]), GetAllOf(solo[i]))

getByTypeOn(i, type) ==
    /\ factory = "createFestivalManager"
    /\ Run(i, "getByType", GetByTypeOf(inst[ClosureOf(i)], type), GetByTypeOf(solo[i], type))

getUpcomingOn(i, currentDate, n) ==
    /\ factory = "createFestivalManager"
    /\ Run(i, "getUpcoming", GetUpcomingOf(inst[ClosureOf(i)], currentDate, n),
                             GetUpcomingOf(solo[i], currentDate, n))

getCountOn(i) ==
    /\ factory = "createFestivalManager"
    /\ Run(i, "getCount", GetCountOf(inst[ClosureOf(i)]), GetCountOf(solo[i]))

registerVoterOn(i, voter) ==
    /\ factory = "createElection"
    /\ Run(i, "registerVoter", RegisterVoterOf(inst[ClosureOf(i)], voter),
                               RegisterVoterOf(solo[i], voter))

castVoteOn(i, voterId, candidateId, onSuccess, onError) ==
    /\ factory = "createElection"
    /\ Run(i, "castVote",
           CastVoteOf(inst[ClosureOf(i)], voterId, candidateId, onSuccess, onError),
           CastVoteOf(solo[i], voterId, candidateId, onSuccess, onError))

getResultsOn(i, sortFn) ==
    /\ factory = "createElection"
    /\ Run(i, "getResults", GetResultsOf(inst[ClosureOf(i)], sortFn), GetResultsOf(solo[i], sortFn))

getWinnerOn(i) ==
    /\ factory = "createElection"
    /\ Run(i, "getWinner", GetWinnerOf(inst[ClosureOf(i)]), GetWinnerOf(solo[i]))

(* no pair of instances has been made *)
NoInstances ==
    /\ factory = "none"
    /\ inst = [i \in Instances |-> NewManager]
    /\ solo = [i \in Instances |-> NewManager]
    /\ ilast = NoICall

-----------------------------------------------------------------------------
(* tallyPure, lines 203-212 *)

MaxTally == 2

(* the currentTally argument: a plain object, null, or a number *)
ObjectTally(obj) == [typeof |-> "object", isNull |-> FALSE, obj |-> obj]

NullTally == [typeof |-> "object", isNull |-> TRUE, obj |-> EmptyObject]

NumberTally == [typeof |-> "number", isNull |-> FALSE, obj |-> EmptyObject]

(* { ...base }: the own properties, copied in the order for-in gives them *)
RECURSIVE SpreadFrom(_, _, _)
SpreadFrom(base, i, acc) ==
    IF i > Len(ForInKeys(base)) THEN acc
    ELSE SpreadFrom(base, i + 1, Put(acc, ForInKeys(base)[i], base.val[ForInKeys(base)[i]]))

Spread(base) == SpreadFrom(base, 1, EmptyObject)

(* line 204 *)
TallyBase(tally) ==
    IF ~tally.isNull /\ tally.typeof = "object" THEN tally.obj ELSE EmptyObject

(* the value tallyPure returns *)
tallyPure(tally, candidateId) ==
    LET newTally == Spread(TallyBase(tally))
    IN  IF candidateId = "" THEN newTally
        ELSE Put(newTally, candidateId, OrZeroPlusOne(GetVote(newTally, candidateId)))

(* the argument after the call: base is read by the spread, every write    *)
(* goes to newTally                                                        *)
tallyPureArgument(tally, candidateId) == tally

NoTallyCall == [op |-> "none", candidateId |-> "", before |-> NullTally, after |-> NullTally,
                ret |-> EmptyObject]

(* the counts of a tally argument, and the lengths of what + appended to   *)
(* its entries that are no numbers                                         *)
Counts(tally) == {TallyBase(tally).val[k].n : k \in DOMAIN TallyBase(tally).val}

tallyPureCall(candidateId) ==
    /\ \A c \in Counts(currentTally) : c < MaxTally
    /\ currentTally' = tallyPureArgument(currentTally, candidateId)
    /\ tallyCall' = [op |-> "tallyPure", candidateId |-> candidateId,
                     before |-> currentTally,
                     after  |-> tallyPureArgument(currentTally, candidateId),
                     ret    |-> tallyPure(currentTally, candidateId)]
    /\ UNCHANGED besidesTally

(* the caller's code: tally = tallyPure(tally, id) keeps the returned      *)
(* mapping as the next argument                                            *)
callerKeepsTally ==
    /\ tallyCall.op = "tallyPure"
    /\ currentTally' = ObjectTally(tallyCall.ret)
    /\ tallyCall' = [tallyCall EXCEPT !.op = "kept"]
    /\ UNCHANGED besidesTally

NoTally ==
    /\ currentTally = NullTally
    /\ tallyCall = NoTallyCall


-----------------------------------------------------------------------------
(* countVotesInRegions, lines 189-201 *)

MaxNodes == 3

(* what a position of a region tree holds: null, a value that is no        *)
(* object, { votes: <number>, subRegions: [...] },                         *)
(* { votes: "5", subRegions: [...] }, and { votes: <number> } whose        *)
(* subRegions is no array                                                  *)
NodeKinds == {"null", "primitive", "counted", "uncounted", "closed"}

(* a tree of n nodes: node 1 is the root, parent[j] < j, and the children  *)
(* of a node stand in subRegions in ascending order                        *)
ParentMaps(n) == {p \in [2..n -> 1..n] : \A j \in 2..n : p[j] < j}

RegionTrees ==
    UNION {{[n |-> n, parent |-> p, kind |-> k] : p \in ParentMaps(n), k \in [1..n -> NodeKinds]} :
              n \in 1..MaxNodes}

(* the votes written on node j when they are a number: a different power   *)
(* of two on every node                                                    *)
Weight(j) == 2 ^ (j - 1)

Children(tree, j) ==
    SelectSeq([k \in 1..tree.n |-> k], LAMBDA k : k > 1 /\ tree.parent[k] = j)

(* line 190 *)
IsObject(tree, j) == tree.kind[j] \notin {"null", "primitive"}

(* line 192: typeof regionTree.votes === "number" ? regionTree.votes : 0 *)
OwnVotes(tree, j) == IF tree.kind[j] \in {"counted", "closed"} THEN Weight(j) ELSE 0

(* the list the loop walks, without the test of line 194 *)
SubRegions_AnyValue(tree, j) == Children(tree, j)

(* lines 194-195: the list the loop walks *)
SubRegions(tree, j) ==
    IF tree.kind[j] \in {"counted", "uncounted"} THEN Children(tree, j) ELSE <<>>

Activation(j) == [node |-> j, at |-> "entry", i |-> 0, total |-> 0]

NotReturned == [done |-> FALSE, value |-> 0]

(* the caller's countVotesInRegions(regionTree) *)
countVotesInRegionsCall ==
    /\ frames = <<>>
    /\ ~returned.done
    /\ frames' = <<Activation(1)>>
    /\ UNCHANGED <<regionTree, returned, besidesRegions>>

(* lines 190-194 of the innermost activation *)
regionsEnter ==
    /\ frames # <<>>
    /\ LET top == frames[Len(frames)]
       IN  /\ top.at = "entry"
           /\ frames' = [frames EXCEPT ![Len(frames)] =
                  IF ~IsObject(regionTree, top.node)
                  THEN [top EXCEPT !.at = "return", !.total = 0]
                  ELSE [top EXCEPT !.at = "loop", !.total = OwnVotes(regionTree, top.node)]]
    /\ UNCHANGED <<regionTree, returned, besidesRegions>>

(* lines 195-196: the loop test and the recursive call *)
regionsLoop ==
    /\ frames # <<>>
    /\ LET top == frames[Len(frames)]
       IN  /\ top.at = "loop"
           /\ frames' = IF top.i < Len(SubRegions(regionTree, top.node))
                        THEN Append(frames, Activation(SubRegions(regionTree, top.node)[top.i + 1]))
                        ELSE [frames EXCEPT ![Len(frames)].at = "return"]
    /\ UNCHANGED <<regionTree, returned, besidesRegions>>

(* a return: line 190 or 200; the calling activation does total += and i++ *)
regionsReturn ==
    /\ frames # <<>>
    /\ LET top == frames[Len(frames)]
           under == SubSeq(frames, 1, Len(frames) - 1)
       IN  /\ top.at = "return"
           /\ IF under = <<>>
              THEN /\ frames' = <<>>
                   /\ returned' = [done |-> TRUE, value |-> top.total]
              ELSE /\ frames' = [under EXCEPT ![Len(under)].total = @ + top.total,
                                              ![Len(under)].i = @ + 1]
                   /\ UNCHANGED returned
    /\ UNCHANGED <<regionTree, besidesRegions>>

NoRegions ==
    /\ regionTree = [n |-> 1, parent |-> <<>>, kind |-> <<"null">>]
    /\ frames = <<>>
    /\ returned = NotReturned

-----------------------------------------------------------------------------
(* createVoteValidator, lines 165-187 *)

DefaultMinAge == 18

(* the rules argument: null, or an object whose minAge is undefined, null  *)
(* or a number and whose requiredFields is a list of names or no list      *)
NoMinAge == [kind |-> "undefined", n |-> 0]

NullMinAge == [kind |-> "null", n |-> 0]

FieldList(items) == [isArray |-> TRUE, items |-> items]

NoFieldList == [isArray |-> FALSE, items |-> <<>>]

NullRules == [isNull |-> TRUE, minAge |-> NoMinAge, requiredFields |-> NoFieldList]

RuleInputs ==
    {NullRules} \cup
    [isNull : {FALSE},
     minAge : {NoMinAge, NullMinAge, Num(DefaultMinAge - 2), Num(DefaultMinAge + 3)},
     requiredFields : {NoFieldList, FieldList(<<>>), FieldList(<<"id">>),
                       FieldList(<<"id", "name">>), FieldList(<<"name", "id">>),
                       FieldList(<<"toString", "age">>)}]

(* the voter argument: null, a primitive, or an object with some of the    *)
(* properties id, name and age                                             *)
NullBallot == [typeof |-> "object", isNull |-> TRUE, has |-> {}, ageKind |-> "undefined", age |-> 0]

StringBallot == [typeof |-> "string", isNull |-> FALSE, has |-> {}, ageKind |-> "undefined", age |-> 0]

ObjectBallots ==
    {[typeof |-> "object", isNull |-> FALSE, has |-> h, ageKind |-> "undefined", age |-> 0] :
        h \in SUBSET {"id", "name"}}
    \cup
    {[typeof |-> "object", isNull |-> FALSE, has |-> h \cup {"age"}, ageKind |-> k, age |-> 0] :
        h \in SUBSET {"id", "name"}, k \in {"NaN", "string"}}
    \cup
    {[typeof |-> "object", isNull |-> FALSE, has |-> h \cup {"age"}, ageKind |-> "number", age |-> a] :
        h \in SUBSET {"id", "name"},
        a \in {DefaultMinAge - 2, DefaultMinAge - 1, DefaultMinAge, DefaultMinAge + 3}}

BallotInputs == {NullBallot, StringBallot} \cup ObjectBallots

(* line 166: rules?.minAge ?? 18 *)
MinAgeOf(r) ==
    IF r.isNull \/ r.minAge.kind \in {"undefined", "null"} THEN DefaultMinAge ELSE r.minAge.n

(* line 167 *)
RequiredOf(r) ==
    IF ~r.isNull /\ r.requiredFields.isArray THEN r.requiredFields.items ELSE <<>>

(* field in voter: an own property or one every object inherits *)
In(field, voter) == field \in voter.has \/ field \in ObjectPrototypeKeys

Verdict(valid, reason) == [valid |-> valid, reason |-> reason]

(* `missing_${field}`: the two parts of the string *)
Missing(field) == <<"missing_", field>>

(* the loop of lines 174-179: the index it returns at, 0 when it runs out *)
RECURSIVE RequiredLoop(_, _, _)
RequiredLoop(required, voter, i) ==
    IF i > Len(required) THEN 0
    ELSE IF ~In(required[i], voter) THEN i
    ELSE RequiredLoop(required, voter, i + 1)

(* line 181 *)
AgeFails(voter, minAge) ==
    \/ voter.ageKind \notin {"number", "NaN"}
    \/ (voter.ageKind = "number" /\ voter.age < minAge)

(* the validator with the test of line 181 before the loop *)
validate_AgeFirst(r, voter) ==
    IF voter.isNull \/ voter.typeof # "object" THEN Verdict(FALSE, <<"invalid_voter">>)
    ELSE IF AgeFails(voter, MinAgeOf(r)) THEN Verdict(FALSE, <<"underage">>)
    ELSE IF RequiredLoop(RequiredOf(r), voter, 1) # 0
    THEN Verdict(FALSE, Missing(RequiredOf(r)[RequiredLoop(RequiredOf(r), voter, 1)]))
    ELSE Verdict(TRUE, <<"">>)

(* the function createVoteValidator(r) returns, lines 169-186 *)
validate(r, voter) ==
    IF voter.isNull \/ voter.typeof # "object" THEN Verdict(FALSE, <<"invalid_voter">>)
    ELSE IF RequiredLoop(RequiredOf(r), voter, 1) # 0
    THEN Verdict(FALSE, Missing(RequiredOf(r)[RequiredLoop(RequiredOf(r), voter, 1)]))
    ELSE IF AgeFails(voter, MinAgeOf(r)) THEN Verdict(FALSE, <<"underage">>)
    ELSE Verdict(TRUE, <<"">>)

NoVerdict == [op |-> "none", voter |-> NullBallot, ret |-> Verdict(FALSE, <<>>)]

validatorCall(voter) ==
    /\ verdict' = [op |-> "validate", voter |-> voter, ret |-> validate(rules, voter)]
    /\ UNCHANGED <<rules, besidesValidator>>

NoValidator ==
    /\ rules = NullRules
    /\ verdict = NoVerdict

(* no standalone function has been called *)
PureIdle == NoTally /\ NoRegions /\ NoValidator

-----------------------------------------------------------------------------
(* One election instance used by any sequence of calls *)

ElectionInit ==
    /\ candidates \in CandidateLists
    /\ candidateMap = createElection(candidates).candidateMap
    /\ votes = createElection(candidates).votes
    /\ registered = {}
    /\ voted = {}
    /\ last = NoCall
    /\ succBy = [v \in VoterIds |-> 0]
    /\ succFor = [c \in CandIds |-> 0]

(* One festival manager used by any sequence of calls *)

FestivalInit ==
    /\ festivals = <<>>
    /\ flast = NoFCall
    /\ nAdded = 0
    /\ nRemoved = 0
    /\ addedAt = [x \in StoredNames |-> 0]

Init == ElectionInit /\ FestivalInit /\ NoRefs /\ NoInstances /\ PureIdle

Next ==
    \/ \E voter \in VoterInputs : registerVoter(voter) /\ UNCHANGED besidesElection
    \/ \E voterId \in VoterIds, candidateId \in CandIds, onSuccess \in Handlers, onError \in Handlers :
            castVote(voterId, candidateId, onSuccess, onError) /\ UNCHANGED besidesElection
    \/ \E sortFn \in SortFns : getResults(sortFn) /\ UNCHANGED besidesElection
    \/ getWinner /\ UNCHANGED besidesElection

Spec == Init /\ [][Next]_vars

(* the festival manager next to an election nobody calls *)
FInit ==
    /\ candidates = <<>>
    /\ ElectionInit
    /\ FestivalInit
    /\ NoRefs
    /\ NoInstances
    /\ PureIdle

FNext ==
    \/ \E name \in NameInputs, date \in DateInputs, type \in TypeInputs :
            addFestival(name, date, type) /\ UNCHANGED besidesFestival
    \/ \E name \in NameInputs : removeFestival(name) /\ UNCHANGED besidesFestival
    \/ getAll /\ UNCHANGED besidesFestival
    \/ getCount /\ UNCHANGED besidesFestival
    \/ \E type \in TypeInputs : getByType(type) /\ UNCHANGED besidesFestival
    \/ \E currentDate \in DateInputs, n \in {NoN, [kind |-> "number", n |-> 1]} :
            getUpcoming(currentDate, n) /\ UNCHANGED besidesFestival

FestivalSpec == FInit /\ [][FNext]_vars

(* a manager filled with festivals of one type and asked for the upcoming *)
(* ones                                                                   *)
UpcomingDates == {Str(Date1), Str(Date3)}

ReferenceDates == {Str(Date0), Str(Date1), Str(ShortDate)}

UNext ==
    \/ \E name \in UpcomingNames, date \in UpcomingDates :
            addFestival(name, date, "religious") /\ UNCHANGED besidesFestival
    \/ \E currentDate \in ReferenceDates, n \in NInputs :
            getUpcoming(currentDate, n) /\ UNCHANGED besidesFestival

UpcomingSpec == FInit /\ [][UNext]_vars

(* a caller holding one instance by reference: a manager, or an election  *)
(* made from an array of candidate objects the caller keeps               *)
RefCandidateLists ==
    {cs \in CandidateLists : Len(cs) > 0 /\ cs[1].id = "C1" /\ \A i \in 1..Len(cs) : cs[i].id \in {"C1", "1"}}

RefVoters == {v \in ObjectVoters : ~registerVoterRejects(v, {}) /\ v.ageKind = "number" /\ v.id = "V1"}

RefInit ==
    /\ FestivalInit
    /\ NoInstances
    /\ PureIdle
    /\ held = NoHeld
    /\ \/ /\ candidates = <<>>
          /\ ElectionInit
          /\ heap = [EmptyHeap EXCEPT ![NthFree(EmptyHeap, 1)] = ArrayCell(<<>>)]
          /\ festivalsRef = NthFree(EmptyHeap, 1)
          /\ candidateRef = EmptyObject
          /\ given = NullRef
       \/ /\ candidates \in RefCandidateLists
          /\ ElectionInit
          /\ heap = createElectionRefs(candidates).heap
          /\ candidateRef = createElectionRefs(candidates).candidateRef
          /\ given = createElectionRefs(candidates).given
          /\ festivalsRef = NullRef

RefNext ==
    \/ \E name \in HeapNames : addFestivalByRef(name, Str(Date1), "religious")
    \/ \E name \in HeapNames : removeFestivalByRef(name)
    \/ getAllByRef
    \/ getByTypeByRef("religious")
    \/ getUpcomingByRef(Str(Date0), [kind |-> "number", n |-> 1])
    \/ \E voter \in RefVoters : registerVoterByRef(voter)
    \/ \E candidateId \in {"C1", "1"} : castVoteByRef("V1", candidateId, "undefined", "undefined")
    \/ getResultsByRef("undefined")
    \/ getWinnerByRef
    \/ \E a \in CallerRecords : callerSetsName(a)
    \/ \E r \in CallerArrays : callerPops(r)

RefSpec == RefInit /\ [][RefNext]_vars

(* two managers, or two elections, called in any interleaving *)
PairInit ==
    /\ candidates = <<>>
    /\ ElectionInit
    /\ FestivalInit
    /\ NoRefs
    /\ PureIdle
    /\ ilast = NoICall
    /\ \/ /\ factory = "createFestivalManager"
          /\ inst = [i \in Instances |-> NewManager]
       \/ /\ factory = "createElection"
          /\ \E cands \in [Instances -> RefCandidateLists] :
                 inst = [i \in Instances |-> NewElection(cands[i])]
    /\ solo = inst

PairNext ==
    \/ \E i \in Instances, name \in HeapNames : addFestivalOn(i, name, Str(Date1), "religious")
    \/ \E i \in Instances, name \in HeapNames : removeFestivalOn(i, name)
    \/ \E i \in Instances : getAllOn(i)
    \/ \E i \in Instances : getByTypeOn(i, "religious")
    \/ \E i \in Instances : getUpcomingOn(i, Str(Date0), [kind |-> "number", n |-> 1])
    \/ \E i \in Instances : getCountOn(i)
    \/ \E i \in Instances, voter \in RefVoters : registerVoterOn(i, voter)
    \/ \E i \in Instances, candidateId \in {"C1", "1"} :
            castVoteOn(i, "V1", candidateId, "undefined", "undefined")
    \/ \E i \in Instances : getResultsOn(i, "undefined")
    \/ \E i \in Instances : getWinnerOn(i)

PairSpec == PairInit /\ [][PairNext]_vars

(* a caller of tallyPure: any first argument, then any sequence of calls  *)
TallyInputs == {NullTally, NumberTally, ObjectTally(EmptyObject),
                ObjectTally(Put(EmptyObject, "C1", Num(0)))}

TallyInit ==
    /\ candidates = <<>>
    /\ ElectionInit
    /\ FestivalInit
    /\ NoRefs
    /\ NoInstances
    /\ currentTally \in TallyInputs
    /\ tallyCall = NoTallyCall
    /\ NoRegions
    /\ NoValidator

TallyNext ==
    \/ \E candidateId \in CandIds : tallyPureCall(candidateId)
    \/ callerKeepsTally

TallySpec == TallyInit /\ [][TallyNext]_vars

(* one call of countVotesInRegions on any tree, run until it returns *)
RegionInit ==
    /\ candidates = <<>>
    /\ ElectionInit
    /\ FestivalInit
    /\ NoRefs
    /\ NoInstances
    /\ NoTally
    /\ regionTree \in RegionTrees
    /\ frames = <<>>
    /\ returned = NotReturned
    /\ NoValidator

RegionNext ==
    \/ countVotesInRegionsCall
    \/ regionsEnter
    \/ regionsLoop
    \/ regionsReturn

RegionSpec == RegionInit /\ [][RegionNext]_vars

(* a call that has begun runs on: nothing else shares its thread *)
RegionFairSpec == RegionSpec /\ WF_vars(RegionNext)

(* a validator made from any rules and called on any sequence of voters *)
ValidatorInit ==
    /\ candidates = <<>>
    /\ ElectionInit
    /\ FestivalInit
    /\ NoRefs
    /\ NoInstances
    /\ NoTally
    /\ NoRegions
    /\ rules \in RuleInputs
    /\ verdict = NoVerdict

ValidatorNext == \E voter \in BallotInputs : validatorCall(voter)

ValidatorSpec == ValidatorInit /\ [][ValidatorNext]_vars

(* a manager whose additions are numbered, asked every kind of query *)
OrderNext ==
    \/ \E name \in {Str("Diwali"), Str("Holi")}, date \in WellFormedDates,
          type \in {"religious", "national"} : addFestivalNumbered(name, date, type)
    \/ \E name \in {Str("Diwali"), Str("Holi")} : removeFestivalNumbered(name)
    \/ getAll /\ UNCHANGED <<addedAt, besidesOrder>>
    \/ getCount /\ UNCHANGED <<addedAt, besidesOrder>>
    \/ \E type \in {"religious", "national"} : getByType(type) /\ UNCHANGED <<addedAt, besidesOrder>>
    \/ \E currentDate \in {Str(Date2), Str(Date0)}, n \in {NoN} :
            getUpcoming(currentDate, n) /\ UNCHANGED <<addedAt, besidesOrder>>

OrderSpec == FInit /\ [][OrderNext]_vars

-----------------------------------------------------------------------------
(* Vocabulary of the properties *)

(* the ids of the candidates createElection keeps: those with a truthy id *)
KnownIds == {candidates[i].id : i \in 1..Len(candidates)} \ {""}

(* the position at which an id was first given to createElection *)
FirstGiven(id) == CHOOSE i \in 1..Len(candidates) :
                      candidates[i].id = id /\ \A j \in 1..(i - 1) : candidates[j].id # id

(* the object createElection keeps for an id: the last one given with it *)
KeptCandidate(id) ==
    candidates[CHOOSE i \in 1..Len(candidates) :
                   candidates[i].id = id /\ \A j \in (i + 1)..Len(candidates) : candidates[j].id # id]

RECURSIVE SumOver(_, _)
SumOver(f, S) == IF S = {} THEN 0
                 ELSE LET x == CHOOSE y \in S : TRUE IN f[x] + SumOver(f, S \ {x})

SuccessfulVotes == SumOver(succBy, VoterIds)

IsCastVote == last.op = "castVote"

ErrorWith(reason) ==
    /\ Len(last.calls) = 1
    /\ last.calls[1].handler = "error"
    /\ last.calls[1].reason = reason

(* the last call was a castVote by a voter who had voted before it *)
SecondVote ==
    /\ IsCastVote
    /\ last.voterId \in voted
    /\ \A i \in 1..Len(last.calls) : last.calls[i].handler # "success"

-----------------------------------------------------------------------------
(* C1: a voter id causes the success handler at most once; once a castVote *)
(* for voter v has succeeded, a later castVote with v neither succeeds nor *)
(* changes any vote count, whatever candidateId it names.                  *)
C1_VoteAtMostOnce ==
    /\ [](\A v \in VoterIds : succBy[v] <= 1)
    /\ [][(last'.op = "castVote" /\ last'.voterId \in voted)
            => (votes' = votes /\ SuccessCalls(last'.calls) = 0 /\ succFor' = succFor)]_vars

C1_Witness ==
    /\ SecondVote
    /\ succBy[last.voterId] = 1
    /\ HasOwn(candidateMap, last.candidateId)

(* C2: every castVote call invokes exactly one handler exactly once and    *)
(* returns what it returned; with that handler missing the call returns   *)
(* undefined and records or rejects the vote as with the handler present. *)
C2_ExactlyOneHandler ==
    /\ [](IsCastVote =>
            /\ Len(last.calls) = 1
            /\ last.calls[1].supplied =
                   ((IF last.calls[1].handler = "success" THEN last.onSuccess ELSE last.onError)
                       = "function")
            /\ (last.calls[1].supplied /\ last.calls[1].handler = "success")
                   => (last.ret.kind = "string" /\ last.ret.by = "onSuccess")
            /\ (last.calls[1].supplied /\ last.calls[1].handler = "error")
                   => (last.ret.by = "onError" /\ last.ret.text = last.calls[1].reason)
            /\ ~last.calls[1].supplied => last.ret = Undefined)
    /\ [][last'.op = "castVote" =>
            LET ref == castVoteOutcome(candidateMap, votes, registered, voted,
                                       last'.voterId, last'.candidateId, "function", "function")
            IN  /\ votes' = ref.votes
                /\ voted' = ref.voted
                /\ last'.calls[1].handler = ref.calls[1].handler
                /\ last'.calls[1].reason = ref.calls[1].reason]_vars

C2_Witness ==
    /\ IsCastVote
    /\ last.onSuccess = "undefined"
    /\ last.calls[1].handler = "success"
    /\ last.ret = Undefined
    /\ last.voterId \in voted

(* C3 as stated: a second castVote by the same voter invokes the error     *)
(* handler with already_voted for every candidateId.                      *)
C3_Original == SecondVote => ErrorWith("already_voted")

(* C3 amended: a second castVote by the same voter invokes the error       *)
(* handler: with already_voted when candidateId is the id of a known       *)
(* candidate, with candidate_not_found when candidateId names no property  *)
(* of the candidate map, and with one of the two in every case.            *)
C3_SecondVoteRejected ==
    SecondVote =>
        /\ Len(last.calls) = 1
        /\ last.calls[1].handler = "error"
        /\ last.calls[1].reason \in {"already_voted", "candidate_not_found"}
        /\ last.candidateId \in KnownIds => last.calls[1].reason = "already_voted"
        /\ (last.candidateId \notin KnownIds \cup ObjectPrototypeKeys)
               => last.calls[1].reason = "candidate_not_found"

C3_Witness ==
    /\ SecondVote
    /\ last.candidateId \in KnownIds
    /\ ErrorWith("already_voted")

(* C4: an unregistered voterId gets voter_not_registered; a registered     *)
(* voter naming a candidateId that is no id of a candidate given to        *)
(* createElection gets candidate_not_found; in neither case is a vote      *)
(* recorded, so votes are recorded only for existing candidates.           *)
C4_OnlyExistingCandidates ==
    /\ (IsCastVote /\ last.voterId \notin registered) => ErrorWith("voter_not_registered")
    /\ (IsCastVote /\ last.voterId \in registered /\ last.candidateId \notin KnownIds)
           => ErrorWith("candidate_not_found")
    /\ \A c \in CandIds : succFor[c] > 0 => c \in KnownIds
    /\ \A i \in 1..Len(votes.keys) : votes.keys[i] \in KnownIds

(* C5: registerVoter returns true exactly for an object with a non-empty   *)
(* id, a numeric age of at least 18 and an id not registered before;       *)
(* otherwise it returns false and registers nobody.                        *)
C5_RegisterExactly ==
    last.op = "registerVoter" =>
        LET wellFormed ==
                /\ last.voter.typeof = "object" /\ ~last.voter.isNull
                /\ last.voter.id # ""
                /\ last.voter.ageKind = "number" /\ last.voter.age >= VotingAge
        IN  /\ last.ret = Bool(TRUE) => (wellFormed /\ last.voter.id \in registered)
            /\ ~wellFormed => last.ret = Bool(FALSE)
            /\ (wellFormed /\ last.ret = Bool(FALSE)) => last.voter.id \in registered

(* C6: getWinner() is null exactly when no vote has been cast with         *)
(* success; otherwise it is a candidate with the maximum count; after      *)
(* exactly one successful vote for X it is X.                              *)
C6_WinnerIffVotes ==
    LET w == getWinnerValue(candidateMap, votes)
    IN  /\ w.isNull <=> SuccessfulVotes = 0
        /\ ~w.isNull => \A id \in KnownIds : succFor[id] <= succFor[w.c.id]
        /\ SuccessfulVotes = 1 => \A c \in CandIds : succFor[c] = 1 => (~w.isNull /\ w.c.id = c)

(* C7: when several candidates share the maximum non-zero count,           *)
(* getWinner() is the one given first to createElection.                   *)
C7_TieFirstGiven ==
    LET w    == getWinnerValue(candidateMap, votes)
        best == {id \in KnownIds : succFor[id] > 0 /\ \A o \in KnownIds : succFor[o] <= succFor[id]}
    IN  best # {} =>
            /\ ~w.isNull
            /\ w.c.id \in best
            /\ \A o \in best : FirstGiven(w.c.id) <= FirstGiven(o)

(* C8: getResults() without a comparator has exactly one row per known     *)
(* candidate, with the number of successful votes for it, ordered by       *)
(* count descending, equal counts in candidate map iteration order.        *)
C8_DefaultResults ==
    LET rows  == getResultsValue(candidateMap, votes, "undefined")
        order == ForInKeys(candidateMap)
        At(id) == CHOOSE i \in 1..Len(order) : order[i] = id
    IN  /\ Len(rows) = Cardinality(KnownIds)
        /\ \A id \in KnownIds : \E i \in 1..Len(rows) : rows[i].id = id
        /\ \A i \in 1..Len(rows) :
               /\ rows[i].name = KeptCandidate(rows[i].id).name
               /\ rows[i].party = KeptCandidate(rows[i].id).party
               /\ rows[i].votes = Num(succFor[rows[i].id])
        /\ \A i, j \in 1..Len(rows) : i < j =>
               \/ rows[i].votes.n > rows[j].votes.n
               \/ (rows[i].votes.n = rows[j].votes.n /\ At(rows[i].id) < At(rows[j].id))

(* a call of getResults() whose sort moved a later candidate to the front *)
C8_Witness ==
    /\ last.op = "getResults" /\ last.onSuccess = "undefined"
    /\ Len(last.results) = 2
    /\ last.results[1].votes.n > last.results[2].votes.n
    /\ last.results[1].id = ForInKeys(candidateMap)[2]

-----------------------------------------------------------------------------
(* Vocabulary of the festival properties *)

(* the last call was an addFestival that did not return -1 *)
Added ==
    /\ flast.op = "addFestival"
    /\ flast.ret.n # 0 - 1

GivenRecord == [name |-> flast.name.s, date |-> flast.date.s, type |-> flast.type]

(* C9: no two stored festivals have the same name; an addFestival with a   *)
(* stored name, an empty or non-string name, a date that is not            *)
(* YYYY-MM-DD, or a type outside religious/national/cultural returns -1    *)
(* and leaves the list unchanged.                                          *)
C9_UniqueNames ==
    /\ [](\A i, j \in 1..Len(festivals) : festivals[i].name = festivals[j].name => i = j)
    /\ [][(/\ flast'.op = "addFestival"
            /\ \/ \E i \in 1..Len(festivals) :
                      flast'.name.typeof = "string" /\ festivals[i].name = flast'.name.s
               \/ flast'.name.typeof # "string"
               \/ flast'.name.s = ""
               \/ flast'.date \notin WellFormedDates
               \/ flast'.type \notin {"religious", "national", "cultural"})
            => (flast'.ret = NumberRet(0 - 1) /\ festivals' = festivals)]_vars

(* an addFestival of a stored name, with a good date and type, was refused *)
C9_Witness ==
    /\ flast.op = "addFestival"
    /\ flast.ret = NumberRet(0 - 1)
    /\ flast.date \in WellFormedDates
    /\ flast.type = "national"
    /\ \E i \in 1..Len(festivals) : Str(festivals[i].name) = flast.name
    /\ Len(festivals) = 2

(* C10: a successful addFestival appends the record at the end and returns *)
(* the new total, equal to getCount() right after; getCount() always is    *)
(* the successful additions minus the successful removals.                 *)
C10_CountAndAppend ==
    /\ [](getCountValue(festivals) = nAdded - nRemoved)
    /\ [](Added => (flast.ret.n = getCountValue(festivals) /\ flast.ret.n >= 1))
    /\ [][(flast'.op = "addFestival" /\ flast'.ret.n # 0 - 1)
            => festivals' = Append(festivals,
                                   [name |-> flast'.name.s, date |-> flast'.date.s,
                                    type |-> flast'.type])]_vars

(* an addFestival succeeded after a removal had succeeded *)
C10_Witness ==
    /\ Added
    /\ nRemoved >= 1
    /\ flast.ret.n = 2
    /\ festivals[2] = GivenRecord

DayOf(d) ==
    CASE d = Date2 -> 126 [] d = Date0 -> 201 [] d = Date3 -> 314 [] d = Date1 -> 1020

(* C12: getUpcoming(currentDate, n) with a well-formed currentDate returns *)
(* at most n records, all dated currentDate or later, ascending by date,   *)
(* and they are the n earliest such festivals (all of them when fewer);    *)
(* n defaults to 3; a malformed currentDate gives the empty list.          *)
C12_Upcoming ==
    flast.op = "getUpcoming" =>
        LET r == flast.ret.list
            k == IF flast.n.kind = "undefined" THEN 3 ELSE flast.n.n
            q == {i \in 1..Len(festivals) :
                     flast.date # Str(ShortDate) /\ DayOf(festivals[i].date) >= DayOf(flast.date.s)}
        IN  /\ flast.date = Str(ShortDate) => r = <<>>
            /\ Len(r) = IF Cardinality(q) < k THEN Cardinality(q) ELSE k
            /\ \A j \in 1..Len(r) : \E i \in q : festivals[i] = r[j]
            /\ \A i, j \in 1..Len(r) : i < j =>
                   (r[i].name # r[j].name /\ DayOf(r[i].date) <= DayOf(r[j].date))
            /\ \A i \in q : (\A j \in 1..Len(r) : r[j] # festivals[i]) =>
                   \A j \in 1..Len(r) : DayOf(r[j].date) <= DayOf(festivals[i].date)

(* four festivals qualify, stored out of date order, and the default n     *)
(* keeps the three earliest                                               *)
C12_Witness ==
    /\ flast.op = "getUpcoming"
    /\ flast.n = NoN
    /\ flast.date = Str(Date0)
    /\ Len(festivals) = 4
    /\ festivals[1].date = Date1
    /\ festivals[4].date = Date3
    /\ Len(flast.ret.list) = 3
    /\ flast.ret.list[1] = festivals[4]

-----------------------------------------------------------------------------
(* Vocabulary of the properties about references *)

(* what every accessor returns when called on the given contents *)
AccessorValues(fs, cm, vs) ==
    [all      |-> getAllValue(fs),
     byType   |-> [t \in TypeInputs |-> getByTypeValue(fs, t)],
     upcoming |-> [d \in {Str(Date0), Str(Date1)} |-> getUpcomingValue(fs, d, NoN)],
     results  |-> getResultsValue(cm, vs, "undefined"),
     winner   |-> getWinnerValue(cm, vs)]

(* a step of the caller's code on the objects it holds *)
CallerMutates ==
    \/ \E a \in CallerRecords : callerSetsName(a)
    \/ \E r \in CallerArrays : callerPops(r)

(* the stored contents are the ones the references lead to *)
ViewsAgree ==
    /\ festivals = DerefList(heap, festivalsRef)
    /\ candidateMap = DerefMap(heap, candidateRef)

(* C13: the accessors return independent copies: writing to a record or    *)
(* shortening a list that getAll, getByType, getUpcoming, getResults or    *)
(* getWinner returned, or writing to a candidate object given to           *)
(* createElection, changes neither the stored records nor what any         *)
(* accessor returns afterwards.                                            *)
C13_IndependentCopies ==
    [][CallerMutates =>
          /\ festivals' = festivals
          /\ candidateMap' = candidateMap
          /\ AccessorValues(festivals', candidateMap', votes')
                 = AccessorValues(festivals, candidateMap, votes)]_vars

(* the caller has changed a record of a list an accessor returned while   *)
(* records are stored, or changed a candidate object it gave to an        *)
(* election that has a winner                                             *)
C13_Witness ==
    \/ /\ Len(festivals) > 0
       /\ held.kind = "array"
       /\ Len(heap[held.ref].items) > 0
       /\ heap[heap[held.ref].items[1]].rec.name = "Changed"
    \/ /\ given # NullRef
       /\ ~getWinnerValue(candidateMap, votes).isNull
       /\ \E a \in Items(heap[given].items) : heap[a].rec.name = "Changed"
       /\ held.kind = "record"
       /\ heap[held.ref].rec.name = "Changed"

-----------------------------------------------------------------------------
(* Vocabulary of the properties of tallyPure *)

(* a tally: a mapping from ids to numeric counts, or no mapping at all *)
IsTally(tally) ==
    \A k \in DOMAIN TallyBase(tally).val : TallyBase(tally).val[k].kind = "number"

(* the count a tally has for an id: that of its entry, none when absent *)
CountIn(obj, id) == IF HasOwn(obj, id) THEN obj.val[id] ELSE UndefinedValue

(* C15: tallyPure(T, C) leaves T as it was before the call; the mapping it *)
(* returns has for C one more than T's count for C, 1 when C is absent     *)
(* from T, and for every other id the entry of T; a falsy C gives a copy   *)
(* of T.                                                                   *)
C15_TallyPure ==
    (tallyCall.op = "tallyPure" /\ IsTally(tallyCall.before)) =>
        LET T == TallyBase(tallyCall.before)
            C == tallyCall.candidateId
            R == tallyCall.ret
        IN  /\ tallyCall.after = tallyCall.before
            /\ currentTally = tallyCall.before
            /\ C # "" => CountIn(R, C) = (IF HasOwn(T, C) THEN Num(T.val[C].n + 1) ELSE Num(1))
            /\ \A k \in CandIds \ {C} : CountIn(R, k) = CountIn(T, k)
            /\ C = "" => \A k \in CandIds : CountIn(R, k) = CountIn(T, k)

-----------------------------------------------------------------------------
(* Vocabulary of the properties of countVotesInRegions *)

RECURSIVE Ancestors(_, _)
Ancestors(tree, j) ==
    IF j = 1 THEN {} ELSE {tree.parent[j]} \cup Ancestors(tree, tree.parent[j])

(* the nodes of the tree: the objects that stand in the subRegions list of *)
(* a chain of objects from the root on                                     *)
TreeNodes(tree) ==
    {j \in 1..tree.n : /\ IsObject(tree, j)
                       /\ \A a \in Ancestors(tree, j) : tree.kind[a] \in {"counted", "uncounted"}}

RECURSIVE SumOfWeights(_)
SumOfWeights(S) ==
    IF S = {} THEN 0
    ELSE LET j == CHOOSE x \in S : TRUE IN Weight(j) + SumOfWeights(S \ {j})

(* the sum of the numeric votes of the nodes *)
TreeSum(tree) ==
    SumOfWeights({j \in TreeNodes(tree) : tree.kind[j] \in {"counted", "closed"}})

(* C16: on every finite region tree countVotesInRegions terminates, and    *)
(* what it returns is the sum of the numeric votes of all nodes of the     *)
(* tree, a node without numeric votes counting 0 and a node whose          *)
(* subRegions is no list having no children; a null or non-object argument *)
(* gives 0.                                                                *)
C16_RegionSum ==
    /\ <>returned.done
    /\ [](returned.done =>
            /\ returned.value = TreeSum(regionTree)
            /\ ~IsObject(regionTree, 1) => returned.value = 0)

(* the call returned on a tree of the largest size in which a node with   *)
(* numeric votes stands below a node without numeric votes                 *)
C16_Witness ==
    /\ returned.done
    /\ regionTree.n = MaxNodes
    /\ \E j \in TreeNodes(regionTree) : Ancestors(regionTree, j) # {} /\ regionTree.kind[j] = "counted"
                                        /\ \E a \in Ancestors(regionTree, j) : regionTree.kind[a] = "uncounted"
    /\ returned.value > 0

-----------------------------------------------------------------------------
(* Vocabulary of the properties of the validator *)

(* the required fields the voter lacks, by position in the list *)
MissingAt(voter) ==
    {i \in 1..Len(RequiredOf(rules)) : ~In(RequiredOf(rules)[i], voter)}

FirstMissing(voter) ==
    RequiredOf(rules)[CHOOSE i \in MissingAt(voter) : \A j \in MissingAt(voter) : i <= j]

-----------------------------------------------------------------------------
(* Vocabulary of the properties of the election's state *)

(* the step is a castVote call that invoked the success handler *)
SucceededStep == last'.op = "castVote" /\ SuccessCalls(last'.calls) > 0

(* the step is a registerVoter call that returned true *)
AcceptedStep == last'.op = "registerVoter" /\ last'.ret = Bool(TRUE)

(* C18: the count of every known candidate starts at zero; a castVote call *)
(* that invokes the success handler raises the count of the id it names by *)
(* exactly 1 and leaves every other count unchanged; registerVoter,        *)
(* getResults, getWinner and a castVote call that invokes the error        *)
(* handler leave all counts and the voted set unchanged, and the           *)
(* registered set too, but for the id an accepted registerVoter adds.      *)
C18_FrameEffects ==
    /\ \A id \in KnownIds : CountIn(votes, id) = Num(0)
    /\ [][IF SucceededStep
          THEN /\ CountIn(votes, last'.candidateId).kind = "number"
               /\ CountIn(votes', last'.candidateId) = Num(CountIn(votes, last'.candidateId).n + 1)
               /\ \A id \in CandIds \ {last'.candidateId} : CountIn(votes', id) = CountIn(votes, id)
          ELSE /\ votes' = votes
               /\ voted' = voted
               /\ \/ registered' = registered
                  \/ AcceptedStep /\ registered' = registered \cup {last'.voter.id}]_vars

(* the sum of the counts in the rows getResults() returns *)
RECURSIVE SumRows(_, _)
SumRows(rows, i) ==
    IF i > Len(rows) THEN 0 ELSE rows[i].votes.n + SumRows(rows, i + 1)

(* C19: in every reachable state the voters who have voted are registered, *)
(* and the counts of all candidates in the rows of getResults() add up to  *)
(* the number of voters who have voted.                                    *)
C19_VotedAndCounted ==
    /\ voted \subseteq registered
    /\ \A i \in 1..Len(getResultsValue(candidateMap, votes, "undefined")) :
           getResultsValue(candidateMap, votes, "undefined")[i].votes.kind = "number"
    /\ SumRows(getResultsValue(candidateMap, votes, "undefined"), 1) = Cardinality(voted)

-----------------------------------------------------------------------------
(* Vocabulary of the properties of the manager's queries *)

Queries == {"getAll", "getByType", "getUpcoming", "getCount"}

(* the records of a list stand in the order of the additions that stored   *)
(* them                                                                    *)
InOrder(list, at) ==
    /\ \A i \in 1..Len(list) : at[list[i].name] > 0
    /\ \A i, j \in 1..Len(list) : i < j => at[list[i].name] < at[list[j].name]

(* C20: getAll, getByType, getUpcoming and getCount are read-only: after   *)
(* any of them getAll() returns the same records in the same order as      *)
(* before, the sort of getUpcoming included; getAll() returns all stored   *)
(* records and getByType() those of the type, both in the order of the     *)
(* successful addFestival calls.                                           *)
C20_QueriesReadOnly ==
    [][/\ InOrder(festivals', addedAt')
       /\ flast'.op \in Queries => getAllValue(festivals') = getAllValue(festivals)
       /\ flast'.op = "getAll" =>
             /\ InOrder(flast'.ret.list, addedAt')
             /\ {flast'.ret.list[i] : i \in 1..Len(flast'.ret.list)}
                    = {festivals[i] : i \in 1..Len(festivals)}
       /\ flast'.op = "getByType" =>
             /\ InOrder(flast'.ret.list, addedAt')
             /\ {flast'.ret.list[i] : i \in 1..Len(flast'.ret.list)}
                    = {festivals[i] : i \in {k \in 1..Len(festivals) : festivals[k].type = flast'.type}}]_vars

(* getUpcoming returned a later addition before an earlier one, the        *)
(* stored list being in the order of the additions                         *)
C20_Witness ==
    /\ flast.op = "getUpcoming"
    /\ Len(flast.ret.list) > 1
    /\ addedAt[flast.ret.list[1].name] > addedAt[flast.ret.list[2].name]
    /\ Len(festivals) > 1

====
